---- MODULE Spec2Model ----
(***************************************************************************)
(* A model of factsumm/factsumm.py: the FactSumm orchestrator, its lazily  *)
(* loaded adapter slots, the permutation builder, the comparability filter *)
(* and the batch aggregation of __call__.                                  *)
(*                                                                         *)
(* The pretrained services (segmenter, NER, RE, QG, QA, OpenIE, ROUGE,     *)
(* BERTScore) are external: every value they return is an input of the    *)
(* action that invokes them, drawn from a small set.                       *)
(***************************************************************************)
EXTENDS Integers, Sequences, FiniteSets, TLC

VARIABLES
    self,          \* the adapter slots of the FactSumm instance
    loads,         \* how many times each adapter's loader has run
    invoked,       \* what each slot held when the last step invoked it
    pc,            \* position inside __call__, "idle" outside of it
    op,            \* the public method entered last
    args,          \* the arguments of the last __call__
    num_pairs,     \* __call__ locals ...
    idx,
    fact_scores,
    qags_scores,
    triple_scores,
    rouges,
    bert_scores,
    source_ents,
    summary_ents,
    records,       \* the per-pair values the steps of this __call__ returned
    trace,         \* the steps of this __call__, in the order they ran
    ner_calls,     \* per pair, how often the entity extractor was invoked
    result,        \* what the last method returned or raised
    fin,           \* inputs of a function, in the specifications of the functions
    fout           \* its output

callvars == <<pc, op, args, num_pairs, idx, fact_scores, qags_scores,
              triple_scores, rouges, bert_scores, source_ents, summary_ents,
              records, trace, ner_calls, result>>
objvars == <<self, loads, invoked>>
fnvars == <<fin, fout>>
vars == <<self, loads, invoked, pc, op, args, num_pairs, idx, fact_scores,
          qags_scores, triple_scores, rouges, bert_scores, source_ents,
          summary_ents, records, trace, ner_calls, result, fin, fout>>

----------------------------------------------------------------------------
(* Bounds *)

\* the longest batch handed to __call__
MaxPairs == 2
\* the most sentences in a document handed to build_perm
MaxLines == 2
\* the most entity mentions in one sentence
MaxEnts == 2
\* the most triples an extractor returns for one document
MaxFacts == 2

----------------------------------------------------------------------------
(* Numbers: Python floats are modelled as exact fractions <<n, d>>, d > 0,  *)
(* kept in lowest terms so that equal values are equal tuples.             *)

RECURSIVE GCD(_, _)
GCD(a, b) == IF b = 0 THEN a ELSE GCD(b, a % b)

Rat(n, d) == LET g == GCD(n, d) IN <<n \div g, d \div g>>
Zero == Rat(0, 1)
One == Rat(1, 1)
RatAdd(x, y) == Rat(x[1] * y[2] + y[1] * x[2], x[2] * y[2])
RatDiv(x, n) == Rat(x[1], x[2] * n)
RatLeq(x, y) == x[1] * y[2] <= y[1] * x[2]

RECURSIVE SumSeq(_)
SumSeq(s) == IF s = <<>> THEN Zero ELSE RatAdd(Head(s), SumSeq(Tail(s)))

Range(s) == {s[i] : i \in DOMAIN s}
SeqsUpTo(S, n) == UNION {[1..k -> S] : k \in 0..n}

----------------------------------------------------------------------------
(* build_perm *)

\* itertools.permutations(line_entities, 2): every ordered pair of distinct
\* positions, in lexicographic order of the positions
permutations2(line_entities) ==
    LET k == Len(line_entities)
        second(i, jj) == IF jj < i THEN jj ELSE jj + 1
    IN  IF k < 2 THEN <<>>
        ELSE [p \in 1..(k * (k - 1)) |->
                LET i == ((p - 1) \div (k - 1)) + 1
                    j == second(i, ((p - 1) % (k - 1)) + 1)
                IN  <<line_entities[i], line_entities[j]>>]

\* itertools.combinations in place of permutations: only i < j
combinations2(line_entities) ==
    LET perms == permutations2(line_entities)
        keep == {p \in DOMAIN perms :
                    LET k == Len(line_entities)
                        i == ((p - 1) \div (k - 1)) + 1
                        jj == ((p - 1) % (k - 1)) + 1
                    IN  jj >= i}
        RECURSIVE pick(_)
        pick(p) == IF p > Len(perms) THEN <<>>
                   ELSE IF p \in keep THEN <<perms[p]>> \o pick(p + 1)
                   ELSE pick(p + 1)
    IN  pick(1)

line_perms_of(line_entities) == permutations2(line_entities)

Min(a, b) == IF a < b THEN a ELSE b

build_perm(lines, total_entities) ==
    [n \in 1..Min(Len(lines), Len(total_entities)) |->
        LET line_perms == line_perms_of(total_entities[n])
        IN  [c \in DOMAIN line_perms |->
                [text |-> lines[n],
                 spans |-> << <<line_perms[c][1].start, line_perms[c][1].end>>,
                              <<line_perms[c][2].start, line_perms[c][2].end>> >>]]]

----------------------------------------------------------------------------
(* _filter_out and the two scores built on it *)

filter_one_sided(sources, summaries) ==
    LET summary_tuple == {<<t[1], t[2]>> : t \in summaries}
    IN  << {t \in sources : <<t[1], t[2]>> \in summary_tuple}, summaries >>

_filter_out(sources, summaries) ==
    LET source_tuple == {<<t[1], t[2]>> : t \in sources}
        summary_tuple == {<<t[1], t[2]>> : t \in summaries}
    IN  << {t \in sources : <<t[1], t[2]>> \in summary_tuple},
           {t \in summaries : <<t[1], t[2]>> \in source_tuple} >>

\* a ratio over the source side instead of the summary side
ratio_over_source(common, source_side, summary_side) ==
    IF summary_side = {} THEN Zero
    ELSE IF source_side = {} THEN Zero
    ELSE Rat(Cardinality(common), Cardinality(source_side))

\* the empty summary side defaulting to a full score
ratio_unguarded(common, source_side, summary_side) ==
    IF summary_side = {} THEN One
    ELSE Rat(Cardinality(common), Cardinality(summary_side))

\* if not summary_facts: 0.0, else len(common) / len(summary_facts)
ratio(common, source_side, summary_side) ==
    IF summary_side = {} THEN Zero
    ELSE Rat(Cardinality(common), Cardinality(summary_side))

\* the scoring half of extract_facts, from the two pools get_facts returned
score_facts(source_pool, summary_pool) ==
    LET f == _filter_out(source_pool, summary_pool)
        common_facts == f[2] \cap f[1]
        diff_facts == f[2] \ f[1]
    IN  [source |-> f[1], summary |-> f[2], common |-> common_facts,
         diff |-> diff_facts, score |-> ratio(common_facts, f[1], f[2])]

\* the scoring half of extract_triples, from the two lists self.ie returned
score_triples(source_ie, summary_ie) ==
    LET source_triples == {<<d.subject, d.relation, d.object>> : d \in Range(source_ie)}
        summary_triples == {<<d.subject, d.relation, d.object>> : d \in Range(summary_ie)}
        f == _filter_out(source_triples, summary_triples)
        common_triples == f[2] \cap f[1]
    IN  [source |-> f[1], summary |-> f[2], common |-> common_triples,
         diff |-> f[2] \ f[1], score |-> ratio(common_triples, f[1], f[2])]

\* get_facts: the relation extractor is run on every sentence's candidate
\* list, its answers are concatenated and deduplicated by set()
get_facts(lines, entities, rel_out) ==
    LET perms == build_perm(lines, entities)
    IN  UNION {Range(rel_out[n]) : n \in DOMAIN perms}

----------------------------------------------------------------------------
(* The adapter slots *)

Adapters == {"ner", "rel", "qg", "qa", "bert_score", "ie"}

\* a slot holds the configured model name (a str), None, or a loaded handle
NameStr == "str"
None == "None"
Handle == "handle"
NotInvoked == "not_invoked"

\* an optional argument or local: Absent for None, Given(x) for a value x
Absent == <<>>
Given(x) == <<x>>

isinstance_str(v) == v = NameStr
callable(v) == v = Handle

\* FactSumm.__init__: five names, and no OpenIE adapter yet
constructed ==
    [ner |-> NameStr, rel |-> NameStr, qg |-> NameStr, qa |-> NameStr,
     bert_score |-> NameStr, ie |-> None]

nothing_loaded == [a \in Adapters |-> 0]
nothing_invoked == [a \in Adapters |-> NotInvoked]

\* self.<a> = load_<a>(...), for each adapter of as
load(s, as) == [a \in Adapters |-> IF a \in as THEN Handle ELSE s[a]]
count(l, as) == [a \in Adapters |-> IF a \in as THEN l[a] + 1 ELSE l[a]]

\* the first of the adapters in order (a sequence of names, in the order the
\* method calls them) whose slot is not callable; 0 if all are
RECURSIVE first_bad(_, _, _)
first_bad(s, order, n) ==
    IF n > Len(order) THEN 0
    ELSE IF ~callable(s[order[n]]) THEN n
    ELSE first_bad(s, order, n + 1)

\* calling the adapters of order one after the other: Python raises TypeError
\* at the first slot that is not callable and the later ones are not reached
call_in_order(s, order) ==
    LET bad == first_bad(s, order, 1)
        reached == IF bad = 0 THEN Range(order) ELSE {order[n] : n \in 1..bad}
    IN  [invoked |-> [a \in Adapters |-> IF a \in reached THEN s[a] ELSE NotInvoked],
         error |-> IF bad = 0 THEN "none" ELSE "TypeError",
         ner |-> Cardinality({n \in DOMAIN order :
                                order[n] = "ner" /\ (bad = 0 \/ n < bad)})]

----------------------------------------------------------------------------
(* The methods, as functions of the slots s, the load counters l and what   *)
(* the adapters answer (in)                                                *)

\* the guard of lines 199-201 asks for both slots at once
facts_guard_both(s) == isinstance_str(s.ner) /\ isinstance_str(s.rel)

extract_facts(s, l, in) ==
    LET need == IF facts_guard_both(s) THEN {"ner", "rel"} ELSE {}
        s1 == load(s, need)
        \* self.ner twice, then self.rel once per sentence of either side
        order == <<"ner", "ner">>
                 \o [n \in 1..(Len(build_perm(in.source_lines, in.source_ents))
                               + Len(build_perm(in.summary_lines, in.summary_ents)))
                        |-> "rel"]
        c == call_in_order(s1, order)
        source_facts == get_facts(in.source_lines, in.source_ents, in.source_rel)
        summary_facts == get_facts(in.summary_lines, in.summary_ents, in.summary_rel)
    IN  [self |-> s1, loads |-> count(l, need), invoked |-> c.invoked,
         error |-> c.error, ner |-> c.ner,
         source_ents |-> in.source_ents, summary_ents |-> in.summary_ents,
         fact_score |-> score_facts(source_facts, summary_facts).score]

extract_qas(s, l, src_ents, sum_ents, in) ==
    LET need == (IF isinstance_str(s.qg) /\ isinstance_str(s.qa)
                    THEN {"qg", "qa"} ELSE {})
                \cup (IF isinstance_str(s.ner) THEN {"ner"} ELSE {})
        s1 == load(s, need)
        order == (IF src_ents = Absent THEN <<"ner">> ELSE <<>>)
                 \o (IF sum_ents = Absent THEN <<"ner">> ELSE <<>>)
                 \o <<"qg", "qa", "qa">>
        c == call_in_order(s1, order)
    IN  [self |-> s1, loads |-> count(l, need), invoked |-> c.invoked,
         error |-> c.error, ner |-> c.ner, qa_score |-> in.qa_score]

extract_triples(s, l, in) ==
    LET need == IF s.ie = None THEN {"ie"} ELSE {}
        s1 == load(s, need)
        c == call_in_order(s1, <<"ie", "ie">>)
    IN  [self |-> s1, loads |-> count(l, need), invoked |-> c.invoked,
         error |-> c.error,
         triple_score |-> score_triples(in.source_ie, in.summary_ie).score]

\* self.rouge is built by the constructor: no slot is read or written
calculate_rouge(in) == <<in.rouge_1, in.rouge_2, in.rouge_l>>

\* score.pop(-1), then sum(score) / len(score)
drop_last_mean(score) ==
    LET kept == SubSeq(score, 1, Len(score) - 1)
    IN  RatDiv(SumSeq(kept), Len(kept))

\* the loader run on every call
bert_guard_always(s) == TRUE
bert_guard(s) == isinstance_str(s.bert_score)

calculate_bert_score(s, l, in) ==
    LET need == IF bert_guard(s) THEN {"bert_score"} ELSE {}
        s1 == load(s, need)
        c == call_in_order(s1, <<"bert_score">>)
    IN  [self |-> s1, loads |-> count(l, need), invoked |-> c.invoked,
         error |-> c.error,
         filtered_scores |-> [k \in 1..3 |-> drop_last_mean(in.scores[k])]]

----------------------------------------------------------------------------
(* What the external services answer in the orchestrator's specification   *)

M1 == [word |-> "Paris", entity |-> "LOC", start |-> 0, end |-> 5]
M2 == [word |-> "France", entity |-> "LOC", start |-> 24, end |-> 30]
T1 == <<"Paris", "capital_of", "France">>
D1 == [subject |-> "Paris", relation |-> "is", object |-> "the capital of France"]

\* self.segmenter.segment: no sentence (an empty text) or one
SegmenterAnswers == {<<>>, <<"Paris is the capital of France.">>}
\* self.ner: one mention list per sentence
NerAnswers(lines) == [1..Len(lines) -> {<<>>, <<M1, M2>>}]
\* self.rel: one triple list per candidate list
RelAnswers(lines) == [1..Len(lines) -> {<<>>, <<T1>>}]
\* self.ie
IeAnswers == {<<>>, <<D1>>}

Sides ==
    UNION {{[lines |-> ls, ents |-> es, rel |-> rs] :
                es \in NerAnswers(ls), rs \in RelAnswers(ls)} :
            ls \in SegmenterAnswers}

FactsInputs ==
    {[source_lines |-> a.lines, source_ents |-> a.ents, source_rel |-> a.rel,
      summary_lines |-> b.lines, summary_ents |-> b.ents, summary_rel |-> b.rel] :
        a \in Sides, b \in Sides}

\* what qags_score makes of the two answer lists
QasInputs == {[qa_score |-> q] : q \in {Zero, One}}

TriplesInputs == {[source_ie |-> a, summary_ie |-> b] : a \in IeAnswers, b \in IeAnswers}

\* self.rouge.rouge_n and rouge_l: one answer, three different values
RougeInputs ==
    {[rouge_1 |-> One, rouge_2 |-> Rat(1, 2), rouge_l |-> Rat(1, 3)]}

\* (P, R, F), each with one value for the summary and one for "dummy"
BertInputs ==
    {[scores |-> << <<Zero, One>>, <<Zero, One>>, <<Zero, One>> >>],
     [scores |-> << <<One, Zero>>, <<Rat(1, 2), One>>, <<Rat(2, 3), Rat(1, 2)>> >>]}

\* the entity lists a caller of extract_qas may pass, or None
EntsArgs == {Absent} \cup {Given(es) : es \in UNION {NerAnswers(ls) : ls \in SegmenterAnswers}}

\* (len(sources), len(summaries)) after lines 411-413 wrapped two strings
CallArgs ==
    {[kind |-> "str", sources |-> 1, summaries |-> 1]}
    \cup {[kind |-> "list", sources |-> m, summaries |-> n] :
            m \in 0..MaxPairs, n \in 0..MaxPairs}

NoArgs == [kind |-> None, sources |-> 0, summaries |-> 0]
NoRecords == [fact_score |-> <<>>, qa_score |-> <<>>, triple_score |-> <<>>,
              rouge |-> <<>>, bert_score |-> <<>>]
NoInput == [kind |-> "none"]
NoOutput == [op |-> "none"]

returned(v) == [error |-> "none", value |-> v]
raised(e) == [error |-> e, value |-> None]
running == [error |-> "running", value |-> None]

----------------------------------------------------------------------------
(* Initial state: a freshly constructed FactSumm *)

ObjInit ==
    /\ self = constructed
    /\ loads = nothing_loaded
    /\ invoked = nothing_invoked
    /\ pc = "idle"
    /\ op = "__init__"
    /\ args = NoArgs
    /\ num_pairs = 0
    /\ idx = 0
    /\ fact_scores = Zero
    /\ qags_scores = Zero
    /\ triple_scores = Zero
    /\ rouges = <<Zero, Zero, Zero>>
    /\ bert_scores = <<Zero, Zero, Zero>>
    /\ source_ents = Absent
    /\ summary_ents = Absent
    /\ records = NoRecords
    /\ trace = <<>>
    /\ ner_calls = <<>>
    /\ result = returned(None)

Init == ObjInit /\ fin = NoInput /\ fout = NoOutput

\* the locals of __call__ once it has returned or raised
LocalsGone ==
    /\ num_pairs' = 0
    /\ idx' = 0
    /\ fact_scores' = Zero
    /\ qags_scores' = Zero
    /\ triple_scores' = Zero
    /\ rouges' = <<Zero, Zero, Zero>>
    /\ bert_scores' = <<Zero, Zero, Zero>>
    /\ source_ents' = Absent
    /\ summary_ents' = Absent

Raise(e) == pc' = "idle" /\ result' = raised(e) /\ LocalsGone

----------------------------------------------------------------------------
(* __call__, one action per statement group of lines 411-474 *)

lengths_never_differ(a) == FALSE
\* line 415
lengths_differ(a) == a.sources # a.summaries

\* zip(sources, summaries) stops with the shorter one
zip_len(a) == Min(a.sources, a.summaries)

\* lines 411-426
CallBegin ==
    /\ pc = "idle"
    /\ \E a \in CallArgs :
        /\ op' = "__call__"
        /\ args' = a
        /\ records' = NoRecords
        /\ trace' = <<>>
        /\ ner_calls' = <<>>
        /\ invoked' = nothing_invoked
        /\ UNCHANGED <<self, loads, fnvars>>
        /\ IF lengths_differ(a)
           THEN Raise("ValueError")
           ELSE /\ num_pairs' = a.sources
                /\ idx' = 1
                /\ fact_scores' = Zero
                /\ qags_scores' = Zero
                /\ triple_scores' = Zero
                /\ rouges' = <<Zero, Zero, Zero>>
                /\ bert_scores' = <<Zero, Zero, Zero>>
                /\ source_ents' = Absent
                /\ summary_ents' = Absent
                /\ result' = running
                /\ pc' = IF zip_len(a) = 0 THEN "return" ELSE "extract_facts"

\* extract_triples and extract_qas in each other's place
next_step_swapped(step) ==
    CASE step = "extract_facts" -> "extract_triples"
      [] step = "extract_triples" -> "extract_qas"
      [] step = "extract_qas" -> "calculate_rouge"
      [] step = "calculate_rouge" -> "calculate_bert_score"

\* the statement order of the loop body, lines 429-458
next_step(step) ==
    CASE step = "extract_facts" -> "extract_qas"
      [] step = "extract_qas" -> "extract_triples"
      [] step = "extract_triples" -> "calculate_rouge"
      [] step = "calculate_rouge" -> "calculate_bert_score"

\* lines 429-435
CallExtractFacts ==
    /\ pc = "extract_facts"
    /\ \E in \in FactsInputs :
        LET r == extract_facts(self, loads, in) IN
        /\ self' = r.self
        /\ loads' = r.loads
        /\ invoked' = r.invoked
        /\ trace' = Append(trace, <<idx, "extract_facts">>)
        /\ ner_calls' = Append(ner_calls, r.ner)
        /\ UNCHANGED <<op, args, fnvars>>
        /\ IF r.error # "none"
           THEN Raise(r.error) /\ UNCHANGED records
           ELSE /\ fact_scores' = RatAdd(fact_scores, r.fact_score)
                /\ source_ents' = Given(r.source_ents)
                /\ summary_ents' = Given(r.summary_ents)
                /\ records' = [records EXCEPT !.fact_score = Append(@, r.fact_score)]
                /\ pc' = next_step("extract_facts")
                /\ UNCHANGED <<num_pairs, idx, qags_scores, triple_scores,
                               rouges, bert_scores, result>>

\* lines 437-445
CallExtractQas ==
    /\ pc = "extract_qas"
    /\ \E in \in QasInputs :
        LET r == extract_qas(self, loads, source_ents, summary_ents, in) IN
        /\ self' = r.self
        /\ loads' = r.loads
        /\ invoked' = r.invoked
        /\ trace' = Append(trace, <<idx, "extract_qas">>)
        /\ ner_calls' = [ner_calls EXCEPT ![idx] = @ + r.ner]
        /\ UNCHANGED <<op, args, fnvars>>
        /\ IF r.error # "none"
           THEN Raise(r.error) /\ UNCHANGED records
           ELSE /\ qags_scores' = RatAdd(qags_scores, r.qa_score)
                /\ records' = [records EXCEPT !.qa_score = Append(@, r.qa_score)]
                /\ pc' = next_step("extract_qas")
                /\ UNCHANGED <<num_pairs, idx, fact_scores, triple_scores, rouges,
                               bert_scores, source_ents, summary_ents, result>>

\* lines 447-448
CallExtractTriples ==
    /\ pc = "extract_triples"
    /\ \E in \in TriplesInputs :
        LET r == extract_triples(self, loads, in) IN
        /\ self' = r.self
        /\ loads' = r.loads
        /\ invoked' = r.invoked
        /\ trace' = Append(trace, <<idx, "extract_triples">>)
        /\ UNCHANGED <<op, args, ner_calls, fnvars>>
        /\ IF r.error # "none"
           THEN Raise(r.error) /\ UNCHANGED records
           ELSE /\ triple_scores' = RatAdd(triple_scores, r.triple_score)
                /\ records' = [records EXCEPT !.triple_score = Append(@, r.triple_score)]
                /\ pc' = next_step("extract_triples")
                /\ UNCHANGED <<num_pairs, idx, fact_scores, qags_scores, rouges,
                               bert_scores, source_ents, summary_ents, result>>

\* lines 450-453
CallCalculateRouge ==
    /\ pc = "calculate_rouge"
    /\ \E in \in RougeInputs :
        LET r == calculate_rouge(in) IN
        /\ rouges' = [k \in 1..3 |-> RatAdd(rouges[k], r[k])]
        /\ records' = [records EXCEPT !.rouge = Append(@, r)]
        /\ trace' = Append(trace, <<idx, "calculate_rouge">>)
        /\ invoked' = nothing_invoked
        /\ pc' = next_step("calculate_rouge")
        /\ UNCHANGED <<self, loads, op, args, num_pairs, idx, fact_scores,
                       qags_scores, triple_scores, bert_scores, source_ents,
                       summary_ents, ner_calls, result, fnvars>>

\* lines 455-458, and the loop's step to the next pair
CallCalculateBertScore ==
    /\ pc = "calculate_bert_score"
    /\ \E in \in BertInputs :
        LET r == calculate_bert_score(self, loads, in) IN
        /\ self' = r.self
        /\ loads' = r.loads
        /\ invoked' = r.invoked
        /\ trace' = Append(trace, <<idx, "calculate_bert_score">>)
        /\ UNCHANGED <<op, args, ner_calls, fnvars>>
        /\ IF r.error # "none"
           THEN Raise(r.error) /\ UNCHANGED records
           ELSE /\ bert_scores' = [k \in 1..3 |-> RatAdd(bert_scores[k], r.filtered_scores[k])]
                /\ records' = [records EXCEPT !.bert_score = Append(@, r.filtered_scores)]
                /\ idx' = IF idx < zip_len(args) THEN idx + 1 ELSE idx
                /\ pc' = IF idx < zip_len(args) THEN "extract_facts" ELSE "return"
                /\ UNCHANGED <<num_pairs, fact_scores, qags_scores, triple_scores,
                               rouges, source_ents, summary_ents, result>>

\* lines 460-474
metric_mapping(n, facts, qags, triples, rg, bs) ==
    [fact_score |-> RatDiv(facts, n),
     qa_score |-> RatDiv(qags, n),
     triple_score |-> RatDiv(triples, n),
     rouge |-> <<RatDiv(rg[1], n), RatDiv(rg[2], n), RatDiv(rg[3], n)>>,
     bert_score |-> [precision |-> bs[1], recall |-> bs[2], f1 |-> bs[3]]]

CallReturn ==
    /\ pc = "return"
    /\ invoked' = nothing_invoked
    /\ UNCHANGED <<self, loads, op, args, records, trace, ner_calls, fnvars>>
    /\ IF num_pairs = 0
       THEN Raise("ZeroDivisionError")
       ELSE /\ result' = returned(metric_mapping(num_pairs, fact_scores, qags_scores,
                                                 triple_scores, rouges, bert_scores))
            /\ pc' = "idle"
            /\ LocalsGone

----------------------------------------------------------------------------
(* The public methods called directly on the instance *)

\* what a direct call leaves of an earlier __call__
Direct(name) ==
    /\ pc = "idle"
    /\ pc' = "idle"
    /\ op' = name
    /\ args' = NoArgs
    /\ records' = NoRecords
    /\ trace' = <<>>
    /\ ner_calls' = <<>>
    /\ UNCHANGED <<num_pairs, idx, fact_scores, qags_scores, triple_scores,
                   rouges, bert_scores, source_ents, summary_ents, fnvars>>

ExtractFacts ==
    /\ Direct("extract_facts")
    /\ \E in \in FactsInputs :
        LET r == extract_facts(self, loads, in) IN
        /\ self' = r.self
        /\ loads' = r.loads
        /\ invoked' = r.invoked
        /\ result' = IF r.error # "none" THEN raised(r.error)
                     ELSE returned(<<r.source_ents, r.summary_ents, r.fact_score>>)

ExtractQas ==
    /\ Direct("extract_qas")
    /\ \E se \in EntsArgs, me \in EntsArgs, in \in QasInputs :
        LET r == extract_qas(self, loads, se, me, in) IN
        /\ self' = r.self
        /\ loads' = r.loads
        /\ invoked' = r.invoked
        /\ result' = IF r.error # "none" THEN raised(r.error)
                     ELSE returned(r.qa_score)

ExtractTriples ==
    /\ Direct("extract_triples")
    /\ \E in \in TriplesInputs :
        LET r == extract_triples(self, loads, in) IN
        /\ self' = r.self
        /\ loads' = r.loads
        /\ invoked' = r.invoked
        /\ result' = IF r.error # "none" THEN raised(r.error)
                     ELSE returned(r.triple_score)

CalculateRouge ==
    /\ Direct("calculate_rouge")
    /\ \E in \in RougeInputs :
        /\ invoked' = nothing_invoked
        /\ result' = returned(calculate_rouge(in))
        /\ UNCHANGED <<self, loads>>

CalculateBertScore ==
    /\ Direct("calculate_bert_score")
    /\ \E in \in BertInputs :
        LET r == calculate_bert_score(self, loads, in) IN
        /\ self' = r.self
        /\ loads' = r.loads
        /\ invoked' = r.invoked
        /\ result' = IF r.error # "none" THEN raised(r.error)
                     ELSE returned(r.filtered_scores)

Next ==
    \/ CallBegin
    \/ CallExtractFacts
    \/ CallExtractQas
    \/ CallExtractTriples
    \/ CallCalculateRouge
    \/ CallCalculateBertScore
    \/ CallReturn
    \/ ExtractFacts
    \/ ExtractQas
    \/ ExtractTriples
    \/ CalculateRouge
    \/ CalculateBertScore

Spec == Init /\ [][Next]_vars

----------------------------------------------------------------------------
(* The scores and the filter as functions: the inputs are drawn by Init,   *)
(* one action applies the function                                         *)

Triples ==
    ({"Paris", "Berlin"} \X {"capital_of"} \X {"France", "Germany"})
    \cup ({"Paris"} \X {"located_in"} \X {"France", "Germany"})

as_dict(t) == [subject |-> t[1], relation |-> t[2], object |-> t[3]]
Dicts == {as_dict(t) : t \in Triples}

\* what the relation extractor returns: a list of tuples
RelInputs ==
    {[kind |-> "re", sources |-> a, summaries |-> b] :
        a \in SeqsUpTo(Triples, MaxFacts), b \in SeqsUpTo(Triples, MaxFacts)}
\* what the OpenIE extractor returns: a list of dicts
IeInputs ==
    {[kind |-> "ie", sources |-> a, summaries |-> b] :
        a \in SeqsUpTo(Dicts, MaxFacts), b \in SeqsUpTo(Dicts, MaxFacts)}

InitFacts ==
    /\ ObjInit
    /\ fout = NoOutput
    /\ (fin \in RelInputs \/ fin \in IeInputs)

\* extract_facts on a one-sentence source and summary whose relation
\* extractor answers fin.sources and fin.summaries
ApplyExtractFacts ==
    /\ fin.kind = "re"
    /\ fout.op = "none"
    /\ LET line == <<"Paris is the capital of France.">>
           ents == << <<M1, M2>> >>
           r == score_facts(get_facts(line, ents, <<fin.sources>>),
                            get_facts(line, ents, <<fin.summaries>>))
       IN  fout' = [op |-> "extract_facts", source |-> r.source,
                    summary |-> r.summary, common |-> r.common, score |-> r.score]
    /\ UNCHANGED <<fin, objvars, callvars>>

\* extract_triples with self.ie answering fin.sources and fin.summaries
ApplyExtractTriples ==
    /\ fin.kind = "ie"
    /\ fout.op = "none"
    /\ LET r == score_triples(fin.sources, fin.summaries)
       IN  fout' = [op |-> "extract_triples", source |-> r.source,
                    summary |-> r.summary, common |-> r.common, score |-> r.score]
    /\ UNCHANGED <<fin, objvars, callvars>>

\* _filter_out on the two pools, and on the two pools exchanged
ApplyFilterOut ==
    /\ fin.kind = "re"
    /\ fout.op = "none"
    /\ fout' = [op |-> "_filter_out",
                fwd |-> _filter_out(Range(fin.sources), Range(fin.summaries)),
                bwd |-> _filter_out(Range(fin.summaries), Range(fin.sources))]
    /\ UNCHANGED <<fin, objvars, callvars>>

NextFacts == ApplyExtractFacts \/ ApplyExtractTriples \/ ApplyFilterOut

SpecFacts == InitFacts /\ [][NextFacts]_vars

----------------------------------------------------------------------------
(* build_perm as a function *)

Sentences == {"Paris is the capital of France.", "It has 2 million people."}
Mentions == {M1, M2}

PermInputs ==
    {[kind |-> "perm", lines |-> ls, total_entities |-> es] :
        ls \in SeqsUpTo(Sentences, MaxLines),
        es \in SeqsUpTo(SeqsUpTo(Mentions, MaxEnts), MaxLines)}

InitPerm == ObjInit /\ fin \in PermInputs /\ fout = NoOutput

ApplyBuildPerm ==
    /\ fin.kind = "perm"
    /\ fout.op = "none"
    /\ fout' = [op |-> "build_perm", perms |-> build_perm(fin.lines, fin.total_entities)]
    /\ UNCHANGED <<fin, objvars, callvars>>

NextPerm == ApplyBuildPerm

SpecPerm == InitPerm /\ [][NextPerm]_vars

----------------------------------------------------------------------------
(* Properties of __call__ and of the adapter slots (Spec) *)

Column(seq, k) == [i \in DOMAIN seq |-> seq[i][k]]
MeanOf(seq, n) == RatDiv(SumSeq(seq), n)

\* the arithmetic mean of every component of the per-pair values
MeanOfRecords(rs, n) ==
    [fact_score |-> MeanOf(rs.fact_score, n),
     qa_score |-> MeanOf(rs.qa_score, n),
     triple_score |-> MeanOf(rs.triple_score, n),
     rouge |-> <<MeanOf(Column(rs.rouge, 1), n), MeanOf(Column(rs.rouge, 2), n),
                 MeanOf(Column(rs.rouge, 3), n)>>,
     bert_score |-> [precision |-> MeanOf(Column(rs.bert_score, 1), n),
                     recall |-> MeanOf(Column(rs.bert_score, 2), n),
                     f1 |-> MeanOf(Column(rs.bert_score, 3), n)]]

CallReturned == pc = "idle" /\ op = "__call__" /\ result.error = "none"

\* C1: for a batch of n >= 1 pairs, every component of what __call__ returns
\* (fact_score, qa_score, triple_score, the three rouge components and
\* bert_score precision, recall and f1) is the sum of the per-pair values
\* divided by n.
C1_BatchMean ==
    CallReturned => result.value = MeanOfRecords(records, args.sources)

\* C2: a __call__ whose two sequences differ in length raises ValueError at
\* once: no adapter is loaded or invoked, no step of the loop runs and every
\* adapter slot is left as it was.
C2_MismatchRaisesFirst ==
    [][(pc = "idle" /\ op' = "__call__" /\ args'.sources # args'.summaries)
        => /\ result'.error = "ValueError"
           /\ pc' = "idle"
           /\ self' = self
           /\ loads' = loads
           /\ invoked' = nothing_invoked
           /\ trace' = <<>>]_vars

\* a mismatched __call__ on an instance whose adapters are partly loaded
C2_Witness ==
    /\ pc = "idle"
    /\ op = "__call__"
    /\ args.sources # args.summaries
    /\ args.sources > 0
    /\ args.summaries > 0
    /\ result.error = "ValueError"
    /\ self.ner = Handle
    /\ self.bert_score = NameStr

\* C3: whenever a method invokes an adapter, that adapter's slot holds a
\* loaded handle, never the configured name string or None.
C3_InvokedLoaded ==
    \A a \in Adapters : invoked[a] \in {NotInvoked, Handle}

\* C4: the loader of each adapter runs at most once per instance, none runs
\* in the constructor, and a slot is loaded exactly when its loader has run.
C4_LoadedAtMostOnce ==
    /\ \A a \in Adapters : loads[a] <= 1
    /\ \A a \in Adapters : (loads[a] = 1) <=> (self[a] = Handle)
    /\ op = "__init__" => loads = nothing_loaded

\* a second __call__ has run a whole batch on loaded adapters
C4_Witness ==
    /\ CallReturned
    /\ args.sources = 2
    /\ \A a \in Adapters : loads[a] = 1

StepOrder == <<"extract_facts", "extract_qas", "extract_triples",
               "calculate_rouge", "calculate_bert_score">>
Canonical(n) == [k \in 1..(5 * n) |-> <<((k - 1) \div 5) + 1, StepOrder[((k - 1) % 5) + 1]>>]

\* C9: the steps of __call__ run pair by pair in input order, each pair's
\* five steps in the order extract_facts, extract_qas, extract_triples,
\* calculate_rouge, calculate_bert_score; a call that returns has run all
\* five on every pair; and the entity extractor is invoked exactly twice per
\* pair, extract_qas reusing what extract_facts returned.
C9_FixedOrder ==
    op = "__call__" =>
        /\ Len(trace) <= 5 * zip_len(args)
        /\ trace = SubSeq(Canonical(zip_len(args)), 1, Len(trace))
        /\ CallReturned => Len(trace) = 5 * args.sources
        /\ Len(ner_calls) = (Len(trace) + 4) \div 5
        /\ \A p \in DOMAIN ner_calls :
            /\ ner_calls[p] <= 2
            /\ (Len(trace) >= 5 * (p - 1) + 3) => ner_calls[p] = 2

\* a batch of two pairs has returned
C9_Witness ==
    /\ CallReturned
    /\ Len(trace) = 10
    /\ ner_calls = <<2, 2>>

MetricKeys == {"fact_score", "qa_score", "triple_score", "rouge", "bert_score"}

\* C10: a __call__ on a single pair or on two sequences of equal length,
\* empty ones included, does not raise and returns a mapping with the keys
\* fact_score, qa_score, triple_score, rouge and bert_score.
C10_OnlyMismatchRaises ==
    (pc = "idle" /\ op = "__call__" /\ args.sources = args.summaries)
        => (result.error = "none" /\ DOMAIN result.value = MetricKeys)

----------------------------------------------------------------------------
(* Properties of the filter and of the two scores (SpecFacts) *)

\* the two pools handed to the comparability filter
PoolOf(list) ==
    IF fin.kind = "ie" THEN {<<d.subject, d.relation, d.object>> : d \in Range(list)}
    ELSE Range(list)
SourcePool == PoolOf(fin.sources)
SummaryPool == PoolOf(fin.summaries)

\* the triples of A whose (head, relation) occurs in B, whatever the tail
Comparable(A, B) == {t \in A : \E u \in B : u[1] = t[1] /\ u[2] = t[2]}

Scored == fout.op \in {"extract_facts", "extract_triples"}

\* C5: if the filtered summary triples are a subset of the filtered source
\* triples, fact_score and triple_score are exactly 1.0.
C5_SubsetScoresOne ==
    (Scored /\ fout.summary \subseteq fout.source) => fout.score = One

\* C5, amended: if the filtered summary triples are not empty and are a
\* subset of the filtered source triples, the score is exactly 1.0.
C5_NonEmptySubsetScoresOne ==
    (Scored /\ fout.summary # {} /\ fout.summary \subseteq fout.source)
        => fout.score = One

\* extract_triples on a summary whose comparable triples are all in the
\* source, the source holding a comparable triple more
C5_Witness ==
    /\ fout.op = "extract_triples"
    /\ fout.summary # {}
    /\ fout.summary \subseteq fout.source
    /\ fout.summary # fout.source
    /\ SummaryPool # fout.summary

\* C6: if the summary side is empty after the filter, the score is exactly
\* 0.0 whatever the source side holds; otherwise it is
\* |filtered summary /\ filtered source| / |filtered summary|, within [0, 1].
C6_EmptySummaryScoresZero ==
    Scored =>
        LET summary == Comparable(SummaryPool, SourcePool)
            source == Comparable(SourcePool, SummaryPool)
        IN  /\ fout.score = IF summary = {} THEN Zero
                            ELSE Rat(Cardinality(summary \cap source), Cardinality(summary))
            /\ RatLeq(Zero, fout.score)
            /\ RatLeq(fout.score, One)

\* extract_facts on two pools that are not empty and share no (head, relation)
C6_Witness ==
    /\ fout.op = "extract_facts"
    /\ SourcePool # {}
    /\ SummaryPool # {}
    /\ fout.summary = {}
    /\ fout.score = Zero

\* C7: _filter_out(A, B) is _filter_out(B, A) with its two components
\* exchanged, and each side keeps exactly the triples whose (head, relation)
\* occurs on the other side, whatever the tail.
C7_FilterSymmetric ==
    fout.op = "_filter_out" =>
        /\ fout.fwd = <<fout.bwd[2], fout.bwd[1]>>
        /\ fout.fwd[1] = Comparable(SourcePool, SummaryPool)
        /\ fout.fwd[2] = Comparable(SummaryPool, SourcePool)

\* both sides lose a triple and both keep one, the kept ones differing in
\* their tail
C7_Witness ==
    /\ fout.op = "_filter_out"
    /\ fout.fwd[1] # {}
    /\ fout.fwd[1] # SourcePool
    /\ fout.fwd[2] # SummaryPool
    /\ fout.fwd[1] \cap fout.fwd[2] = {}

----------------------------------------------------------------------------
(* Properties of build_perm (SpecPerm) *)

span(m) == <<m.start, m.end>>

\* C8: for as many mention lists as sentences, build_perm returns one
\* candidate list per sentence, in order; a sentence with k mentions gets
\* k*(k-1) candidates, one for every ordered pair of distinct mention
\* positions; every candidate carries its own sentence as text and the spans
\* of two mentions of that sentence.
C8_BuildPerm ==
    (fout.op = "build_perm" /\ Len(fin.lines) = Len(fin.total_entities)) =>
        /\ Len(fout.perms) = Len(fin.lines)
        /\ \A n \in DOMAIN fout.perms :
            LET ents == fin.total_entities[n]
                k == Len(ents)
                cands == fout.perms[n]
            IN  /\ Len(cands) = k * (k - 1)
                /\ \A c \in DOMAIN cands :
                    /\ cands[c].text = fin.lines[n]
                    /\ \E i, j \in 1..k :
                        i # j /\ cands[c].spans = <<span(ents[i]), span(ents[j])>>
                /\ \A i, j \in 1..k :
                    i # j => \E c \in DOMAIN cands :
                        cands[c].spans = <<span(ents[i]), span(ents[j])>>

\* two different sentences, the first with two different mentions and the
\* second with one
C8_Witness ==
    /\ fout.op = "build_perm"
    /\ Len(fin.lines) = 2
    /\ Len(fin.total_entities) = 2
    /\ fin.lines[1] # fin.lines[2]
    /\ fin.total_entities[1] = <<M1, M2>>
    /\ Len(fin.total_entities[2]) = 1
    /\ Len(fout.perms[1]) = 2
    /\ fout.perms[2] = <<>>

====
